---------------------------- MODULE Spec2Model ----------------------------
(***************************************************************************)
(* Call turn engine and call status reconciler of the AI phone assistant:  *)
(* the three telephony webhooks of app/api/api_v1/endpoints/calls.py, the  *)
(* CallService handlers they call, the call_logs table behind              *)
(* CallLogRepository and the TwiML the TwilioIntegration renders.          *)
(*                                                                         *)
(* Every request is served by a coroutine; a coroutine gives up control    *)
(* only at an await, and requests interleave at those points.  The only    *)
(* state requests share is the call_logs table, so one action of the       *)
(* model is the code of one request up to and including one access to the  *)
(* table: the awaits on the agent_configs table (which no handler writes)  *)
(* and on the external providers are taken with the access that follows.   *)
(*                                                                         *)
(* Texts are tuples of one-character strings, so that lower-casing and     *)
(* substring search are computed, not assumed.  A fixed message of the     *)
(* code is a one-element tuple holding the message.                        *)
(***************************************************************************)
EXTENDS Integers, Sequences, FiniteSets, TLC

\* ------------------------------------------------------------------ bounds

\* Requests accepted in one behaviour.
MaxRequests == 3

\* Coroutines that can be in flight at the same time.
Workers == {1, 2}

\* ------------------------------------------------------------------ inputs

\* The call sids requests carry, and the one an inbound call arrives with:
\* the other is a sid the store has no call log for.
CallSids == {"CA1", "CA2"}
InboundSids == {"CA1"}

\* Python's None for a string-valued field.
None == "None"

\* The phone number of the configured agent, one with no agent, and a
\* missing To field.
AGENT_NUMBER == "+15550001"
ToNumbers == {AGENT_NUMBER, "+15559999", None}

FROM_NUMBER == "+15551234"

\* SpeechResult values; <<>> is an absent or empty SpeechResult.
TextA == <<"A">>
TextB == <<"B">>
TextBye == <<"O", "k", " ", "B", "Y", "E">>
SpeechResults == {<<>>, TextA, TextB, TextBye}

\* CallStatus tokens; None is a notification without the field.
TerminalStatuses == {"completed", "failed", "busy", "no-answer"}
LifecycleStatuses == {"ringing", "in-progress"} \cup TerminalStatuses
\* The tokens that arrive: in-progress takes the path of ringing, failed
\* and no-answer the path of busy; canceled is a token of the provider that
\* is not a lifecycle status.
StatusTokens == {"ringing", "canceled", "completed", "busy", None}

\* CallDuration values: absent, an integer literal, not an integer literal.
CallDurations == {<<>>, <<"3", "0">>, <<"3", "x">>}

\* The status notifications that arrive: every token without a duration, and
\* the terminal ones the provider sends a duration with.
StatusNotifications ==
    [CallStatus : StatusTokens, CallDuration : {<<>>}]
        \cup [CallStatus : {"completed"}, CallDuration : CallDurations]

\* What the completion endpoint answers when it answers.
AI_REPLY == <<"Sure.">>
ANALYSIS_SUMMARY == "caller asked a question"
RECORDING_URL == "https://api.twilio.com/2010-04-01/Accounts/AC/Recordings/RE1.mp3"

\* ------------------------------------------------------------ agent config

AgentConfig ==
    [id |-> "agent1", organization_id |-> "org1", phone_number |-> AGENT_NUMBER,
     greeting |-> <<"Hello, how may I help you?">>,
     goodbye |-> <<"Thank you for calling. Goodbye!">>,
     system_prompt |-> <<"You are a receptionist.">>]

NoAgent == [id |-> None]

\* AgentConfigRepository.get_by_phone_number: the first agent with the number.
get_by_phone_number(phone_number) ==
    IF phone_number = AgentConfig.phone_number THEN AgentConfig ELSE NoAgent

\* AgentConfigRepository.get_by_id: the agent with the id.
get_by_id(agent_id) ==
    IF agent_id = AgentConfig.id THEN AgentConfig ELSE NoAgent

\* ------------------------------------------------------------------- texts

UpperCase ==
    <<"A", "B", "C", "D", "E", "F", "G", "H", "I", "J", "K", "L", "M",
      "N", "O", "P", "Q", "R", "S", "T", "U", "V", "W", "X", "Y", "Z">>
LowerCase ==
    <<"a", "b", "c", "d", "e", "f", "g", "h", "i", "j", "k", "l", "m",
      "n", "o", "p", "q", "r", "s", "t", "u", "v", "w", "x", "y", "z">>

\* The lower-case form of one character.
lower_char(c) ==
    IF \E k \in 1..26 : UpperCase[k] = c
        THEN LowerCase[CHOOSE k \in 1..26 : UpperCase[k] = c]
    ELSE c

\* str.lower()
lower(s) == [i \in 1..Len(s) |-> lower_char(s[i])]

\* Python's `word in s` for strings: word is a contiguous part of s.
contains(s, word) ==
    \E i \in 0..(Len(s) - Len(word)) :
        \A j \in 1..Len(word) : s[i + j] = word[j]

HangupWords ==
    { <<"g", "o", "o", "d", "b", "y", "e">>,
      <<"b", "y", "e">>,
      <<"e", "n", "d", " ", "c", "a", "l", "l">>,
      <<"h", "a", "n", "g", " ", "u", "p">> }

\* The check without .lower(): the words are matched as typed.
is_end_call_as_typed(transcript) ==
    \E word \in HangupWords : contains(transcript, word)

\* any(word in transcript.lower() for word in [...])
is_end_call(transcript) ==
    \E word \in HangupWords : contains(lower(transcript), word)

Digits == [c \in {"0", "1", "2", "3", "4", "5", "6", "7", "8", "9"} |->
    CASE c = "0" -> 0 [] c = "1" -> 1 [] c = "2" -> 2 [] c = "3" -> 3
      [] c = "4" -> 4 [] c = "5" -> 5 [] c = "6" -> 6 [] c = "7" -> 7
      [] c = "8" -> 8 [] c = "9" -> 9]

\* Whether int(s) returns for a non-empty s (otherwise it raises ValueError).
int_parses(s) == Len(s) > 0 /\ \A i \in 1..Len(s) : s[i] \in DOMAIN Digits

RECURSIVE int_of(_)
\* int(s) for a string of decimal digits.
int_of(s) ==
    IF Len(s) = 0 THEN 0
    ELSE 10 * int_of(SubSeq(s, 1, Len(s) - 1)) + Digits[s[Len(s)]]

\* ------------------------------------------------------------------- TwiML

GATHER_ACTION == "/api/v1/calls/transcribe"

Say(text) == [verb |-> "Say", text |-> text]

Gather(timeout) ==
    [verb |-> "Gather", input |-> "speech", action |-> GATHER_ACTION,
     timeout |-> timeout, speechTimeout |-> "auto", enhanced |-> TRUE]

Hangup == [verb |-> "Hangup"]

INITIAL_TIMEOUT == 5
TURN_TIMEOUT == 2

\* TwilioIntegration.create_initial_twiml: the greeting is said; the Gather
\* is constructed but never appended to the response.
create_initial_twiml(greeting) ==
    IF greeting # <<>> THEN <<Say(greeting)>> ELSE <<>>

\* The response without the Gather appended.
create_twiml_response_unappended(text_to_say, gather) == <<Say(text_to_say)>>

\* TwilioIntegration.create_twiml_response
create_twiml_response(text_to_say, gather) ==
    IF gather THEN <<Say(text_to_say), Gather(TURN_TIMEOUT)>>
    ELSE <<Say(text_to_say)>>

\* The goodbye that keeps listening instead of hanging up.
create_goodbye_twiml_listening(goodbye_message) ==
    <<Say(goodbye_message), Gather(TURN_TIMEOUT)>>

\* TwilioIntegration.create_goodbye_twiml
create_goodbye_twiml(goodbye_message) == <<Say(goodbye_message), Hangup>>

\* ---------------------------------------------------------- TwiML as text

\* str(response): the markup VoiceResponse writes, as characters.  The
\* declaration's content and a Gather's attribute list are fixed texts.
XML_DECLARATION ==
    <<"<", "?", "xml version=\"1.0\" encoding=\"UTF-8\"", "?", ">">>
RESPONSE_OPEN == <<"<", "R", "e", "s", "p", "o", "n", "s", "e", ">">>
RESPONSE_CLOSE == <<"<", "/", "R", "e", "s", "p", "o", "n", "s", "e", ">">>
SAY_OPEN == <<"<", "S", "a", "y", ">">>
SAY_CLOSE == <<"<", "/", "S", "a", "y", ">">>
SAY_EMPTY == <<"<", "S", "a", "y", " ", "/", ">">>
GATHER_OPEN == <<"<", "G", "a", "t", "h", "e", "r", " ">>
EMPTY_CLOSE == <<" ", "/", ">">>
HANGUP_EMPTY == <<"<", "H", "a", "n", "g", "u", "p", " ", "/", ">">>

\* The attribute list of a Gather with the timeout.
gather_attributes(timeout) ==
    IF timeout = INITIAL_TIMEOUT
        THEN "action=\"/api/v1/calls/transcribe\" enhanced=\"true\" input=\"speech\" speechTimeout=\"auto\" timeout=\"5\""
    ELSE "action=\"/api/v1/calls/transcribe\" enhanced=\"true\" input=\"speech\" speechTimeout=\"auto\" timeout=\"2\""

\* The text written as it is given.
escape_nothing(c) == <<c>>

\* How a character of an element's text is written: the markup characters
\* as entities.
escape_char(c) ==
    IF c = "&" THEN <<"&", "a", "m", "p", ";">>
    ELSE IF c = "<" THEN <<"&", "l", "t", ";">>
    ELSE IF c = ">" THEN <<"&", "g", "t", ";">>
    ELSE <<c>>

RECURSIVE escape(_)
\* The text of an element as written.
escape(text) ==
    IF text = <<>> THEN <<>>
    ELSE escape_char(Head(text)) \o escape(Tail(text))

\* One verb as written.
verb_xml(v) ==
    IF v.verb = "Say"
        THEN IF v.text = <<>> THEN SAY_EMPTY
             ELSE SAY_OPEN \o escape(v.text) \o SAY_CLOSE
    ELSE IF v.verb = "Gather"
        THEN GATHER_OPEN \o <<gather_attributes(v.timeout)>> \o EMPTY_CLOSE
    ELSE HANGUP_EMPTY

RECURSIVE verbs_xml(_)
verbs_xml(twiml) ==
    IF twiml = <<>> THEN <<>>
    ELSE verb_xml(Head(twiml)) \o verbs_xml(Tail(twiml))

\* str(response)
to_xml(twiml) ==
    XML_DECLARATION \o RESPONSE_OPEN \o verbs_xml(twiml) \o RESPONSE_CLOSE

INCOMING_ERROR == <<"I'm sorry, there was an error processing your call. Please try again later.">>
ERROR_GOODBYE == <<"I'm sorry, there was an error. Goodbye.">>
REPROMPT == <<"I'm sorry, I'm having trouble understanding. Could you please repeat that?">>
NOTHING_HEARD == <<"I didn't hear anything. Please try again.">>

\* The prompt that ends the call instead of listening again.
nothing_heard_hangup == <<Say(NOTHING_HEARD), Hangup>>

\* The literal markup transcribe_speech returns when SpeechResult is empty.
nothing_heard_twiml == <<Say(NOTHING_HEARD), Gather(INITIAL_TIMEOUT)>>


\* --------------------------------------------------------------- variables

VARIABLES
    call_logs,      \* the call_logs table: a sequence of rows, row i has id i
    req,            \* the frame of each worker's request (its locals and pc)
    started,        \* requests accepted so far
    text_to_say,    \* the text create_twiml_response is given
    rendered        \* the markup it returned for the text

vars == <<call_logs, req, started, text_to_say, rendered>>

\* ------------------------------------------------------ the call_logs table

NoRow == [id |-> 0]

\* f"Caller: {transcript}"
Caller(text) == [speaker |-> "Caller", text |-> text]

\* The agent's utterance entered as one of the caller.
AI_as_caller(text) == [speaker |-> "Caller", text |-> text]

\* f"AI: {ai_response}"
AI(text) == [speaker |-> "AI", text |-> text]

\* The select without its filter: the first row of the table.
get_first_call_log(table, call_sid) ==
    IF table = <<>> THEN NoRow ELSE table[1]

\* supabase.select(filters={"call_sid": call_sid}) then `[0] if ... else None`
get_by_call_sid(table, call_sid) ==
    LET hits == {i \in 1..Len(table) : table[i].call_sid = call_sid}
    IN  IF hits = {} THEN NoRow
        ELSE table[CHOOSE i \in hits : \A j \in hits : i <= j]

\* The table without the unique constraint on call_sid.
insert_unchecked(table, data) == TRUE

\* call_sid is declared unique: an insert of a second row with the sid fails.
insert_allowed(table, data) ==
    \A i \in 1..Len(table) : table[i].call_sid # data.call_sid

\* supabase.insert: the new row gets the next id; the columns the data does
\* not give are NULL.
insert(table, data) ==
    Append(table,
           data @@ [id |-> Len(table) + 1, recording_url |-> None,
                    transcript |-> <<>>, summary |-> None])

\* status is declared NOT NULL: an update that sets it to NULL fails.
update_allowed(data) ==
    ~("status" \in DOMAIN data /\ data.status = None)

\* The update without its id filter: every row takes the fields.
update_every_row(table, id, data) ==
    [i \in 1..Len(table) |-> data @@ table[i]]

\* supabase.update: the row with the id takes the fields the data gives.
update(table, id, data) ==
    [i \in 1..Len(table) |-> IF table[i].id = id THEN data @@ table[i] ELSE table[i]]

\* ------------------------------------------------------------------ frames

NoCallData ==
    [CallSid |-> None, To |-> None, SpeechResult |-> <<>>,
     CallStatus |-> None, CallDuration |-> <<>>]

NoResponse == [status_code |-> 0, body |-> <<>>]

IdleFrame ==
    [handler |-> "idle", pc |-> "idle", call_data |-> NoCallData,
     call_log |-> NoRow, agent_config |-> NoAgent,
     updated_transcript |-> <<>>, update_data |-> <<>>,
     ret |-> <<>>, handled |-> None, response |-> NoResponse,
     analysis |-> None, error |-> None,
     messages |-> <<>>, invoked |-> {}, writes |-> <<>>, ticket |-> 0]

\* The endpoint answering with a server error instead of the markup.
XmlResponse_error(twiml) == [status_code |-> 500, body |-> <<>>]

\* Response(content=twiml, media_type="application/xml")
XmlResponse(twiml) == [status_code |-> 200, body |-> twiml]

\* raise HTTPException(status_code=...)
HttpError(code) == [status_code |-> code, body |-> <<>>]

\* The endpoint passing the handler's False on as a server error.
call_status_response_propagated(handled) ==
    IF handled = "True" THEN [status_code |-> 200, body |-> <<>>]
    ELSE [status_code |-> 500, body |-> <<>>]

\* call_status: `return {}` on both paths, whatever the service returned.
call_status_response(handled) == [status_code |-> 200, body |-> <<>>]

\* The call log of an earlier call, finished before the requests modelled:
\* no request carries its sid.
EARLIER_SID == "CA0"
EarlierCallLog ==
    [id |-> 1, organization_id |-> AgentConfig.organization_id,
     agent_id |-> AgentConfig.id, call_sid |-> EARLIER_SID,
     from_number |-> FROM_NUMBER, to_number |-> AGENT_NUMBER,
     status |-> "completed", duration |-> 30, recording_url |-> None,
     transcript |-> <<Caller(TextA), AI(AI_REPLY)>>, summary |-> None]

Init ==
    /\ call_logs = <<EarlierCallLog>>
    /\ req = [p \in Workers |-> IdleFrame]
    /\ started = 0
    /\ text_to_say = <<>>
    /\ rendered = <<>>

\* ----------------------------------------------------------------- helpers

Terminal(status) == status \in TerminalStatuses

\* The frame of a request after CallLogRepository.update(id, data): the
\* request is logged with whether the store applied it.  The repository
\* catches a failure and returns False; no caller looks at the value.
Logged(f, data, applied) ==
    [f EXCEPT !.writes = Append(@, [data |-> data, applied |-> applied])]

\* The store that acknowledges an update and keeps the row as it was.
Updated_nowhere(table, id, data, ok) == table

\* The table after CallLogRepository.update(id, data) when the store is
\* reachable (ok) or not.
Updated(table, id, data, ok) ==
    IF ok /\ update_allowed(data) THEN update(table, id, data) ELSE table

\* The exceptions the handlers' except clauses catch.
COMPLETION_ERROR == "generate_response raised"
DURATION_ERROR == "ValueError: invalid literal for int()"
RECORDING_ERROR == "ValueError: Twilio client not initialized"

\* The handler returns and the endpoint answers.
Finish(f) == [f EXCEPT !.pc = "done"]

\* A worker whose request has been answered is free.
Free(p) == req[p].pc \in {"idle", "done"}

\* A request is accepted by the first free worker (which worker serves a
\* request makes no difference to the request), while the bound allows.
Accepts(p) ==
    /\ Free(p)
    /\ \A q \in Workers : q < p => ~Free(q)
    /\ started < MaxRequests

\* The frame of a request just accepted by a handler: its arrival number is
\* its ticket.
NewFrame(handler, call_data) ==
    [IdleFrame EXCEPT !.handler = handler, !.call_data = call_data,
                      !.ticket = started + 1]

\* The frames once worker p has taken a request up to frame f: by then the
\* responses of the finished requests have been sent and their frames
\* released.
Accepted(p, f) ==
    [q \in Workers |->
        IF q = p THEN f ELSE IF req[q].pc = "done" THEN IdleFrame ELSE req[q]]

\* What the handlers read of the row a select returned.
Snapshot(row) ==
    IF row = NoRow THEN NoRow
    ELSE [id |-> row.id, agent_id |-> row.agent_id, transcript |-> row.transcript]

\* ------------------------------------------------------ POST /calls/webhook

\* The call log data handle_incoming_call builds.
incoming_call_log_data(call_data, agent_config) ==
    [organization_id |-> agent_config.organization_id,
     agent_id |-> agent_config.id,
     call_sid |-> call_data.CallSid,
     from_number |-> FROM_NUMBER,
     to_number |-> call_data.To,
     status |-> "in-progress",
     duration |-> 0]

\* call_webhook and CallService.handle_incoming_call.  The To field is
\* required and must be the number of an agent (lookup_ok: whether the
\* agent_configs select succeeded; the repository returns None when not).
\* Then the call log is created (ok: whether the store is reachable; the
\* repository swallows a failure) and the initial TwiML returned.
CallWebhook(p, sid, to, lookup_ok, ok) ==
    /\ Accepts(p)
    /\ started' = started + 1
    /\ UNCHANGED <<text_to_say, rendered>>
    /\ LET f == NewFrame("call_webhook",
                         [NoCallData EXCEPT !.CallSid = sid, !.To = to])
           agent == IF lookup_ok THEN get_by_phone_number(to) ELSE NoAgent
           data == incoming_call_log_data(f.call_data, agent)
           created == ok /\ insert_allowed(call_logs, data)
           twiml == create_initial_twiml(agent.greeting)
       IN  IF to = None
               THEN /\ req' = Accepted(p, Finish([f EXCEPT !.response = HttpError(400)]))
                    /\ UNCHANGED call_logs
           ELSE IF agent = NoAgent
               THEN /\ req' = Accepted(p, Finish([f EXCEPT !.response = HttpError(404)]))
                    /\ UNCHANGED call_logs
           ELSE /\ call_logs' = IF created THEN insert(call_logs, data) ELSE call_logs
                /\ req' = Accepted(p,
                       Finish([f EXCEPT !.agent_config = agent, !.ret = twiml,
                                        !.response = XmlResponse(twiml)]))

\* --------------------------------------------------- POST /calls/transcribe

\* The transcript written back as it was read.
append_nothing(current_transcript, transcript) == current_transcript

\* The transcript process_speech computes from the row it read.
append_caller(current_transcript, transcript) ==
    Append(current_transcript, Caller(transcript))

\* transcribe_speech and process_speech, lines 75-96.  An empty SpeechResult
\* is answered at once.  Otherwise the call log and its agent are read
\* (log_ok, agent_ok: whether the selects succeeded); without either, the
\* error goodbye is said.
TranscribeSpeech(p, sid, speech, log_ok, agent_ok) ==
    /\ Accepts(p)
    /\ started' = started + 1
    /\ UNCHANGED <<text_to_say, rendered>>
    /\ LET f == NewFrame("transcribe_speech",
                         [NoCallData EXCEPT !.CallSid = sid, !.SpeechResult = speech])
           row == IF log_ok THEN Snapshot(get_by_call_sid(call_logs, sid)) ELSE NoRow
           agent == IF row # NoRow /\ agent_ok THEN get_by_id(row.agent_id) ELSE NoAgent
           bye == create_goodbye_twiml(ERROR_GOODBYE)
       IN  req' = Accepted(p,
               IF speech = <<>>
                   THEN Finish([f EXCEPT !.response = XmlResponse(nothing_heard_twiml)])
               ELSE IF row = NoRow \/ agent = NoAgent
                   THEN Finish([f EXCEPT !.call_log = row, !.ret = bye,
                                         !.response = XmlResponse(bye)])
               ELSE [f EXCEPT !.call_log = row, !.agent_config = agent,
                        !.updated_transcript = append_caller(row.transcript, speech),
                        !.pc = "append_caller"])
    /\ UNCHANGED call_logs

\* process_speech, lines 98-101: write the transcript with the caller's
\* utterance, then classify the utterance.
ProcessSpeechAppend(p, ok) ==
    /\ req[p].pc = "append_caller"
    /\ LET f == req[p]
           data == [transcript |-> f.updated_transcript]
       IN  /\ call_logs' = Updated(call_logs, f.call_log.id, data, ok)
           /\ req' = [req EXCEPT ![p] =
                  [Logged(f, data, ok) EXCEPT !.pc =
                      IF is_end_call(f.call_data.SpeechResult)
                          THEN "goodbye" ELSE "generate_response"]]
    /\ UNCHANGED <<started, text_to_say, rendered>>

\* process_speech, lines 102-111: the hang-up turn.
ProcessSpeechGoodbye(p, ok) ==
    /\ req[p].pc = "goodbye"
    /\ LET f == req[p]
           goodbye_message == f.agent_config.goodbye
           final_transcript == Append(f.updated_transcript, AI(goodbye_message))
           data == [transcript |-> final_transcript, status |-> "completed"]
           twiml == create_goodbye_twiml(goodbye_message)
       IN  /\ call_logs' = Updated(call_logs, f.call_log.id, data, ok)
           /\ req' = [req EXCEPT ![p] =
                  Finish([Logged(f, data, ok) EXCEPT
                             !.ret = twiml, !.response = XmlResponse(twiml)])]
    /\ UNCHANGED <<started, text_to_say, rendered>>

\* The messages generate_response sends: the system prompt, then the
\* messages process_speech built, which hold the current utterance only.
completion_messages(system_prompt, transcript) ==
    <<[role |-> "system", content |-> system_prompt],
      [role |-> "user", content |-> transcript]>>

\* process_speech, lines 113-131: the completion call (answered: whether it
\* returns or raises).  When it raises, the except branch answers with the
\* re-prompt; when it returns, the transcript with the reply is written and
\* the reply said.
ProcessSpeechRespond(p, answered, ok) ==
    /\ req[p].pc = "generate_response"
    /\ LET f == [req[p] EXCEPT
                    !.invoked = @ \cup {"generate_response"},
                    !.messages = completion_messages(req[p].agent_config.system_prompt,
                                                     req[p].call_data.SpeechResult)]
           g == [f EXCEPT !.updated_transcript = Append(@, AI(AI_REPLY))]
           data == [transcript |-> g.updated_transcript]
           reprompt == create_twiml_response(REPROMPT, TRUE)
           twiml == create_twiml_response(AI_REPLY, TRUE)
       IN  IF ~answered
               THEN /\ req' = [req EXCEPT ![p] =
                           Finish([f EXCEPT !.error = COMPLETION_ERROR,
                                            !.ret = reprompt,
                                            !.response = XmlResponse(reprompt)])]
                    /\ UNCHANGED call_logs
           ELSE /\ call_logs' = Updated(call_logs, f.call_log.id, data, ok)
                /\ req' = [req EXCEPT ![p] =
                       Finish([Logged(g, data, ok) EXCEPT
                                  !.ret = twiml, !.response = XmlResponse(twiml)])]
    /\ UNCHANGED <<started, text_to_say, rendered>>

\* ------------------------------------------------------- POST /calls/status

\* `int(duration) if duration else 0`
duration_of(duration) == IF duration = <<>> THEN 0 ELSE int_of(duration)

\* The frame when handle_call_status_update returns `handled` to call_status.
StatusReturn(f, handled) ==
    Finish([f EXCEPT !.handled = handled,
                     !.response = call_status_response(handled)])

\* call_status and handle_call_status_update, lines 144-159: read the call
\* log (ok: whether the select succeeded); start the update with the
\* reported status; a terminal status adds the duration, and a duration that
\* int() rejects raises into the outer except.
CallStatus(p, sid, note, ok) ==
    /\ Accepts(p)
    /\ started' = started + 1
    /\ UNCHANGED <<text_to_say, rendered>>
    /\ LET status == note.CallStatus
           duration == note.CallDuration
           f == NewFrame("call_status",
                         [NoCallData EXCEPT !.CallSid = sid, !.CallStatus = status,
                                            !.CallDuration = duration])
           row == IF ok THEN Snapshot(get_by_call_sid(call_logs, sid)) ELSE NoRow
           base == [status |-> status]
           g == [f EXCEPT !.call_log = row]
       IN  req' = Accepted(p,
               IF row = NoRow THEN StatusReturn(g, "False")
               ELSE IF ~Terminal(status)
                   THEN [g EXCEPT !.update_data = base, !.pc = "update_call_log"]
               ELSE IF duration # <<>> /\ ~int_parses(duration)
                   THEN StatusReturn([g EXCEPT !.update_data = base,
                                               !.error = DURATION_ERROR], "False")
               ELSE [g EXCEPT
                        !.update_data = ("duration" :> duration_of(duration)) @@ base,
                        !.pc = "update_call_log"])
    /\ UNCHANGED call_logs

\* get_call_recording: without a client (no credentials) it raises; a
\* recording gives its URL; an empty list or a provider error gives None.
RecordingOutcomes == {"url", "none", "raises"}
AnalysisOutcomes == {"summary", "no_summary", "raises"}

\* The enrichment storing the summary whether the analysis returned or not.
enriched_unguarded(f, recording, analysis) ==
    LET with_recording ==
            IF recording = "url"
                THEN ("recording_url" :> RECORDING_URL) @@ f.update_data
            ELSE f.update_data
    IN  IF f.call_log.transcript # <<>>
            THEN ("summary" :> IF analysis = "summary" THEN ANALYSIS_SUMMARY
                               ELSE None) @@ with_recording
        ELSE with_recording

\* update_data after lines 162-174.  For a completed call the recording is
\* fetched (a provider error or an empty list gives None, a recording its
\* URL) and, when the row read has a transcript, the analysis requested (its
\* summary is kept when it has one; a failure is logged).
enriched(f, recording, analysis) ==
    LET with_recording ==
            IF recording = "url"
                THEN ("recording_url" :> RECORDING_URL) @@ f.update_data
            ELSE f.update_data
    IN  IF f.call_log.transcript # <<>> /\ analysis = "summary"
            THEN ("summary" :> ANALYSIS_SUMMARY) @@ with_recording
        ELSE with_recording

\* The providers handle_call_status_update calls before its update.
enrichment_calls(f, recording) ==
    IF f.call_data.CallStatus # "completed" THEN {}
    ELSE IF recording = "raises" THEN {"get_call_recording"}
    ELSE IF f.call_log.transcript # <<>>
        THEN {"get_call_recording", "analyze_conversation"}
    ELSE {"get_call_recording"}

\* handle_call_status_update, lines 161-183.  When get_call_recording
\* raises, the outer except returns False and nothing is written.
\* Otherwise the update is written (ok: whether the store is reachable) and
\* True returned.
StatusUpdate(p, recording, analysis, ok) ==
    /\ req[p].pc = "update_call_log"
    /\ LET completed == req[p].call_data.CallStatus = "completed"
           f == [req[p] EXCEPT
                    !.invoked = enrichment_calls(req[p], recording),
                    !.analysis = IF "analyze_conversation"
                                      \in enrichment_calls(req[p], recording)
                                 THEN analysis ELSE None]
           data == IF completed THEN enriched(f, recording, analysis)
                   ELSE f.update_data
           applied == ok /\ update_allowed(data)
           g == [f EXCEPT !.update_data = data]
       IN  IF completed /\ recording = "raises"
               THEN /\ req' = [req EXCEPT ![p] =
                           StatusReturn([f EXCEPT !.error = RECORDING_ERROR], "False")]
                    /\ UNCHANGED call_logs
           ELSE /\ call_logs' = Updated(call_logs, f.call_log.id, data, ok)
                /\ req' = [req EXCEPT ![p] =
                       StatusReturn(Logged(g, data, applied), "True")]
    /\ UNCHANGED <<started, text_to_say, rendered>>

\* ------------------------------------------------------------ specification

Next ==
    \E p \in Workers :
        \/ \E sid \in InboundSids, to \in ToNumbers, lookup_ok \in BOOLEAN, ok \in BOOLEAN :
               CallWebhook(p, sid, to, lookup_ok, ok)
        \/ \E sid \in CallSids, speech \in SpeechResults,
              log_ok \in BOOLEAN, agent_ok \in BOOLEAN :
               TranscribeSpeech(p, sid, speech, log_ok, agent_ok)
        \/ \E ok \in BOOLEAN : ProcessSpeechAppend(p, ok)
        \/ \E ok \in BOOLEAN : ProcessSpeechGoodbye(p, ok)
        \/ \E answered \in BOOLEAN, ok \in BOOLEAN : ProcessSpeechRespond(p, answered, ok)
        \/ \E sid \in CallSids, note \in StatusNotifications, ok \in BOOLEAN :
               CallStatus(p, sid, note, ok)
        \/ \E recording \in RecordingOutcomes, analysis \in AnalysisOutcomes,
              ok \in BOOLEAN :
               StatusUpdate(p, recording, analysis, ok)

Spec == Init /\ [][Next]_vars

\* ------------------------------------------------- rendering a reply alone

\* The texts a reply is put together from: letters, the markup characters,
\* an entity, a closing tag and a verb.
TextPieces ==
    { <<"a">>, <<"<">>, <<">">>, <<"&">>, <<"&", "l", "t", ";">>,
      SAY_CLOSE, HANGUP_EMPTY }

\* Pieces in one text.
MaxPieces == 3

RECURSIVE TextsOf(_)
\* The texts of at most n pieces.
TextsOf(n) ==
    IF n = 0 THEN {<<>>}
    ELSE LET shorter == TextsOf(n - 1)
         IN  shorter \cup {t \o piece : t \in shorter, piece \in TextPieces}

\* Before create_twiml_response is called with a text.
RenderInit ==
    /\ call_logs = <<EarlierCallLog>>
    /\ req = [p \in Workers |-> IdleFrame]
    /\ started = 0
    /\ text_to_say \in TextsOf(MaxPieces)
    /\ rendered = <<>>

\* create_twiml_response(text_to_say) returns str(response).
Render ==
    /\ rendered = <<>>
    /\ rendered' = to_xml(create_twiml_response(text_to_say, TRUE))
    /\ UNCHANGED <<call_logs, req, started, text_to_say>>

RenderSpec == RenderInit /\ [][Render]_vars

\* ------------------------------------------------------------------ claims

\* The rows of the table that hold the call sid.
RowsOf(sid) == {i \in 1..Len(call_logs) : call_logs[i].call_sid = sid}

\* The texts of the caller's utterances of a transcript, in its order.
CallerTexts(transcript) ==
    LET callers == SelectSeq(transcript, LAMBDA e : e.speaker = "Caller")
    IN  [i \in 1..Len(callers) |-> callers[i].text]

\* How often a text occurs in a sequence of texts.
Occurrences(texts, t) == Cardinality({i \in 1..Len(texts) : texts[i] = t})

\* A speech turn that found its call log and agent, and so reaches its
\* read-modify-write of the transcript.
IsTurn(f) ==
    /\ f.handler = "transcribe_speech"
    /\ f.call_data.SpeechResult # <<>>
    /\ f.call_log # NoRow
    /\ f.agent_config # NoAgent

\* A finished turn all of whose writes the store applied.
FinishedTurn(f) ==
    /\ IsTurn(f)
    /\ f.pc = "done"
    /\ \A k \in 1..Len(f.writes) : f.writes[k].applied

\* A request between its read of the call log and its last write.
InFlight(f) == f.pc \notin {"idle", "done"}

\* Worker p accepts a request in this step.
AcceptedBy(p) == started' = started + 1 /\ req'[p].ticket = started'

\* Worker p's request returns in this step.
ReturnsIn(p) == req[p].pc # "done" /\ req'[p].pc = "done" /\ ~AcceptedBy(p)

\* C1: the caller utterances of a call's stored transcript are in the order
\* in which the turns arrived, none missing: when two turns of one call have
\* both finished, with every write applied, the stored transcript holds the
\* utterance of the one that arrived first and, after it, the utterance of
\* the one that arrived second.
C1_ArrivalOrder ==
    \A p \in Workers, q \in Workers :
        ( /\ FinishedTurn(req[p]) /\ FinishedTurn(req[q])
          /\ req[p].call_data.CallSid = req[q].call_data.CallSid
          /\ req[p].ticket < req[q].ticket )
        => \A r \in RowsOf(req[p].call_data.CallSid) :
               LET texts == CallerTexts(call_logs[r].transcript)
               IN  \E i \in 1..Len(texts), j \in 1..Len(texts) :
                       /\ i < j
                       /\ texts[i] = req[p].call_data.SpeechResult
                       /\ texts[j] = req[q].call_data.SpeechResult

\* C2: once the status of a call log is terminal, no status notification
\* that handle_call_status_update processes changes it.
C2_TerminalStatusIsFinal ==
    [][\A p \in Workers :
          (req[p].handler = "call_status" /\ ReturnsIn(p))
          => \A i \in 1..Len(call_logs) :
                 Terminal(call_logs[i].status)
                 => call_logs'[i].status = call_logs[i].status]_vars

\* Texts that contain a hang-up term in some case, and texts that do not.
HangupSamples ==
    { <<"G", "o", "o", "d", "b", "y", "e", " ", "n", "o", "w">>,
      <<"B", "Y", "E">>, <<"B", "y", "e">>, TextBye,
      <<"p", "l", "s", " ", "E", "n", "d", " ", "C", "a", "l", "l">>,
      <<"H", "A", "N", "G", " ", "u", "p">> }
OtherSamples ==
    { TextA, TextB, <<"b", "y">>, <<"h", "a", "n", "g", "u", "p">>,
      <<"e", "n", "d", " ", "c", "a", "l">> }

\* C3: a turn whose utterance contains a hang-up term in any case never
\* invokes the completion provider and returns say-goodbye-then-hangup.
\* How the samples are classified does not depend on the state: it is
\* looked at before the first request.
C3_HangupSkipsCompletion ==
    /\ started = 0
       => /\ \A t \in HangupSamples : is_end_call(t)
          /\ \A t \in OtherSamples : ~is_end_call(t)
    /\ \A p \in Workers :
           (IsTurn(req[p]) /\ req[p].call_data.SpeechResult \in HangupSamples)
           => /\ "generate_response" \notin req[p].invoked
              /\ req[p].pc # "generate_response"
              /\ req[p].pc = "done"
                 => /\ req[p].ret = <<Say(AgentConfig.goodbye), Hangup>>
                    /\ req[p].response = [status_code |-> 200, body |-> req[p].ret]

C3_Witness ==
    \E p \in Workers :
        /\ IsTurn(req[p]) /\ req[p].pc = "done"
        /\ req[p].call_data.SpeechResult = TextBye

\* C4: when the completion provider raises, the turn returns the re-prompt
\* with listening re-armed, and the only write of the turn is the transcript
\* it read plus the caller's utterance: the store takes that write and no
\* agent utterance.
C4_CompletionFailureReprompts ==
    [][\A p \in Workers :
          /\ (IsTurn(req[p]) /\ req[p].pc = "append_caller"
                  /\ req'[p].pc # "append_caller")
             => LET expected == Append(req[p].call_log.transcript,
                                       Caller(req[p].call_data.SpeechResult))
                IN  /\ req'[p].writes = <<[data |-> [transcript |-> expected],
                                           applied |-> req'[p].writes[1].applied]>>
                    /\ req'[p].writes[1].applied
                       => \A r \in RowsOf(req[p].call_data.CallSid) :
                              call_logs'[r].transcript = expected
          /\ (ReturnsIn(p) /\ req'[p].error = COMPLETION_ERROR)
             => /\ req'[p].response =
                       [status_code |-> 200,
                        body |-> <<Say(REPROMPT), Gather(TURN_TIMEOUT)>>]
                /\ req'[p].writes = req[p].writes
                /\ Len(req'[p].writes) = 1
                /\ call_logs' = call_logs]_vars

C4_Witness ==
    \E p \in Workers :
        /\ req[p].pc = "done" /\ req[p].error = COMPLETION_ERROR
        /\ req[p].writes[1].applied

\* C5: two turns of one call with different texts that ran concurrently
\* leave both caller utterances in the transcript, each exactly once.
C5_BothUtterancesOnce ==
    \A p \in Workers, q \in Workers :
        ( /\ p # q
          /\ FinishedTurn(req[p]) /\ FinishedTurn(req[q])
          /\ req[p].call_data.CallSid = req[q].call_data.CallSid
          /\ req[p].call_data.SpeechResult # req[q].call_data.SpeechResult
          /\ req[p].call_log.transcript = <<>>
          /\ req[q].call_log.transcript = <<>> )
        => \A r \in RowsOf(req[p].call_data.CallSid) :
               LET texts == CallerTexts(call_logs[r].transcript)
               IN  /\ Occurrences(texts, req[p].call_data.SpeechResult) = 1
                   /\ Occurrences(texts, req[q].call_data.SpeechResult) = 1

\* C6: at no time are two turns or status updates of one call sid both
\* between their read of the call log and their last write.
C6_OneInFlightPerCall ==
    \A p \in Workers, q \in Workers :
        (p # q /\ InFlight(req[p]) /\ InFlight(req[q]))
        => req[p].call_data.CallSid # req[q].call_data.CallSid

\* Worker p's status update for a completed call goes through its
\* enrichment and write in this step.
CompletedUpdate(p) ==
    /\ req[p].handler = "call_status"
    /\ req[p].call_data.CallStatus = "completed"
    /\ req[p].pc = "update_call_log"
    /\ req'[p].pc = "done"

\* The duration a notification reports: 30 for "30", 0 when absent.
ReportedDuration(duration) == IF duration = <<"3", "0">> THEN 30 ELSE 0

\* C7: a completed notification for a call log with a transcript writes the
\* summary of the analysis when the analysis succeeds; when the analysis
\* raises, the update is written without a summary, with status, duration
\* and the recording fetched; without a transcript no analysis is requested.
C7_SummaryFromAnalysis ==
    [][\A p \in Workers :
          CompletedUpdate(p)
          => LET f == req'[p]
                 sid == req[p].call_data.CallSid
                 transcript == req[p].call_log.transcript
             IN  /\ transcript = <<>>
                    => "analyze_conversation" \notin f.invoked
                 /\ (transcript # <<>> /\ f.analysis = "summary")
                    => /\ Len(f.writes) = 1
                       /\ "summary" \in DOMAIN f.writes[1].data
                       /\ f.writes[1].data.summary = ANALYSIS_SUMMARY
                       /\ f.writes[1].applied
                          => \A r \in RowsOf(sid) :
                                 call_logs'[r].summary = ANALYSIS_SUMMARY
                 /\ (transcript # <<>> /\ f.analysis = "raises")
                    => /\ Len(f.writes) = 1
                       /\ "summary" \notin DOMAIN f.writes[1].data
                       /\ f.handled = "True"
                       /\ f.writes[1].applied
                          => \A r \in RowsOf(sid) :
                                 /\ call_logs'[r].summary = call_logs[r].summary
                                 /\ call_logs'[r].status = "completed"
                                 /\ call_logs'[r].duration =
                                        ReportedDuration(req[p].call_data.CallDuration)
                                 /\ "recording_url" \in DOMAIN f.writes[1].data
                                    => call_logs'[r].recording_url = RECORDING_URL]_vars

C7_Witness ==
    \E p \in Workers :
        /\ req[p].handler = "call_status" /\ req[p].pc = "done"
        /\ req[p].analysis = "raises"
        /\ req[p].writes # <<>> /\ req[p].writes[1].applied
        /\ \E r \in RowsOf(req[p].call_data.CallSid) :
               /\ call_logs[r].status = "completed"
               /\ call_logs[r].summary = None
               /\ call_logs[r].recording_url = RECORDING_URL

\* C8: a status notification for a call sid without a call log is answered
\* with success in that step; the table is not changed, no update is issued
\* and no provider is called.
C8_UnknownCallIsNoOp ==
    [][\A p \in Workers :
          ( /\ AcceptedBy(p)
            /\ req'[p].handler = "call_status"
            /\ RowsOf(req'[p].call_data.CallSid) = {} )
          => /\ req'[p].pc = "done"
             /\ req'[p].response = [status_code |-> 200, body |-> <<>>]
             /\ call_logs' = call_logs
             /\ req'[p].writes = <<>>
             /\ req'[p].invoked = {}]_vars

C8_Witness ==
    \E p \in Workers :
        /\ req[p].handler = "call_status" /\ req[p].pc = "done"
        /\ req[p].call_data.CallSid = "CA2"
        /\ req[p].call_data.CallStatus = "completed"
        /\ RowsOf("CA1") # {}

\* C9: every status notification is answered with success, whichever step
\* of its handling failed.
C9_StatusAlwaysAcknowledged ==
    \A p \in Workers :
        (req[p].handler = "call_status" /\ req[p].pc = "done")
        => req[p].response = [status_code |-> 200, body |-> <<>>]

C9_Witness ==
    \E p \in Workers :
        /\ req[p].handler = "call_status" /\ req[p].pc = "done"
        /\ req[p].call_log # NoRow
        /\ req[p].error = DURATION_ERROR
        /\ req[p].handled = "False"

\* C10: an inbound call for a call sid without a call log, once its call
\* log is stored, has left it in-progress and is answered with the greeting
\* followed by a speech Gather (enhanced, with a timeout, posting to the
\* transcribe action).
C10_GreetingThenListen ==
    [][\A p \in Workers :
          ( /\ AcceptedBy(p)
            /\ req'[p].handler = "call_webhook"
            /\ req'[p].response.status_code = 200
            /\ RowsOf(req'[p].call_data.CallSid) = {}
            /\ call_logs' # call_logs )
          => LET body == req'[p].response.body
             IN  /\ \A r \in 1..Len(call_logs') :
                        call_logs'[r].call_sid = req'[p].call_data.CallSid
                        => call_logs'[r].status = "in-progress"
                 /\ \E i \in 1..Len(body), j \in 1..Len(body) :
                        /\ i < j
                        /\ body[i] = Say(AgentConfig.greeting)
                        /\ body[j].verb = "Gather"
                        /\ body[j].input = "speech"
                        /\ body[j].enhanced
                        /\ body[j].timeout > 0
                        /\ body[j].action = GATHER_ACTION]_vars

\* C11: a turn with speech for a call sid without a call log, or whose
\* agent is not found, is answered in that step with the error goodbye
\* followed by a hangup; the table is not changed, no update is issued and
\* the completion provider is not called.
C11_UnknownCallTurnSaysGoodbye ==
    [][\A p \in Workers :
          ( /\ AcceptedBy(p)
            /\ req'[p].handler = "transcribe_speech"
            /\ req'[p].call_data.SpeechResult # <<>>
            /\ \/ RowsOf(req'[p].call_data.CallSid) = {}
               \/ req'[p].agent_config = NoAgent )
          => /\ req'[p].pc = "done"
             /\ req'[p].response =
                    [status_code |-> 200,
                     body |-> <<[verb |-> "Say", text |-> ERROR_GOODBYE],
                                [verb |-> "Hangup"]>>]
             /\ call_logs' = call_logs
             /\ req'[p].writes = <<>>
             /\ req'[p].invoked = {}]_vars

C11_Witness ==
    \E p \in Workers :
        /\ req[p].handler = "transcribe_speech" /\ req[p].pc = "done"
        /\ req[p].call_data.CallSid = "CA2"
        /\ req[p].call_data.SpeechResult = TextA
        /\ req[p].response.body = <<Say(ERROR_GOODBYE), Hangup>>
        /\ RowsOf("CA1") # {}

\* C12: a speech notification without recognized text is answered in that
\* step with a prompt followed by a speech Gather posting to the transcribe
\* action; the table is not changed, no update is issued and no provider is
\* called.
C12_NoSpeechReprompts ==
    [][\A p \in Workers :
          ( /\ AcceptedBy(p)
            /\ req'[p].handler = "transcribe_speech"
            /\ req'[p].call_data.SpeechResult = <<>> )
          => LET body == req'[p].response.body
             IN  /\ req'[p].pc = "done"
                 /\ req'[p].response.status_code = 200
                 /\ Len(body) = 2
                 /\ body[1] = [verb |-> "Say", text |-> NOTHING_HEARD]
                 /\ body[2].verb = "Gather"
                 /\ body[2].input = "speech"
                 /\ body[2].action = GATHER_ACTION
                 /\ body[2].timeout > 0
                 /\ call_logs' = call_logs
                 /\ req'[p].writes = <<>>
                 /\ req'[p].invoked = {}]_vars

C12_Witness ==
    \E p \in Workers :
        /\ req[p].handler = "transcribe_speech" /\ req[p].pc = "done"
        /\ req[p].call_data.SpeechResult = <<>>
        /\ req[p].call_data.CallSid = "CA1"
        /\ req[p].response.status_code = 200
        /\ \E r \in RowsOf("CA1") : call_logs[r].transcript # <<>>

\* C13: an inbound call to a number that no agent has is answered with
\* success and a spoken instruction, not with an error status, and no call
\* log is created for it.
C13_NoAgentIsSpoken ==
    [][\A p \in Workers :
          ( /\ AcceptedBy(p)
            /\ req'[p].handler = "call_webhook"
            /\ req'[p].call_data.To # None
            /\ req'[p].call_data.To # AgentConfig.phone_number )
          => /\ req'[p].response.status_code = 200
             /\ \E i \in 1..Len(req'[p].response.body) :
                    req'[p].response.body[i].verb = "Say"
             /\ call_logs' = call_logs]_vars

ParseError == [verb |-> "ParseError"]

\* w is written in s at position i.
at(s, i, w) ==
    /\ i + Len(w) - 1 <= Len(s)
    /\ \A k \in 1..Len(w) : s[i + k - 1] = w[k]

RECURSIVE unescape(_)
\* The text an element's written text stands for: entities read back.
unescape(s) ==
    IF s = <<>> THEN <<>>
    ELSE IF at(s, 1, <<"&", "a", "m", "p", ";">>)
        THEN <<"&">> \o unescape(SubSeq(s, 6, Len(s)))
    ELSE IF at(s, 1, <<"&", "l", "t", ";">>)
        THEN <<"<">> \o unescape(SubSeq(s, 5, Len(s)))
    ELSE IF at(s, 1, <<"&", "g", "t", ";">>)
        THEN <<">">> \o unescape(SubSeq(s, 5, Len(s)))
    ELSE <<Head(s)>> \o unescape(Tail(s))

\* The timeout an attribute list gives.
timeout_of(attributes) ==
    IF attributes = gather_attributes(INITIAL_TIMEOUT) THEN INITIAL_TIMEOUT
    ELSE TURN_TIMEOUT

RECURSIVE parse_verbs(_, _)
\* The verbs read from position i of the markup up to the closing tag of
\* the response.  The text of a Say ends at the first "<" after its opening
\* tag, which must begin its closing tag.
parse_verbs(s, i) ==
    IF at(s, i, RESPONSE_CLOSE)
        THEN IF i + Len(RESPONSE_CLOSE) = Len(s) + 1 THEN <<>> ELSE <<ParseError>>
    ELSE IF at(s, i, SAY_EMPTY)
        THEN <<Say(<<>>)>> \o parse_verbs(s, i + Len(SAY_EMPTY))
    ELSE IF at(s, i, SAY_OPEN)
        THEN LET from == i + Len(SAY_OPEN)
                 tags == {j \in from..Len(s) : s[j] = "<"}
                 j == CHOOSE j \in tags : \A k \in tags : j <= k
             IN  IF tags = {} \/ ~at(s, j, SAY_CLOSE) THEN <<ParseError>>
                 ELSE <<Say(unescape(SubSeq(s, from, j - 1)))>>
                          \o parse_verbs(s, j + Len(SAY_CLOSE))
    ELSE IF at(s, i, GATHER_OPEN)
        THEN LET k == i + Len(GATHER_OPEN)
             IN  IF ~at(s, k + 1, EMPTY_CLOSE) THEN <<ParseError>>
                 ELSE <<Gather(timeout_of(s[k]))>>
                          \o parse_verbs(s, k + 1 + Len(EMPTY_CLOSE))
    ELSE IF at(s, i, HANGUP_EMPTY)
        THEN <<Hangup>> \o parse_verbs(s, i + Len(HANGUP_EMPTY))
    ELSE <<ParseError>>

\* The verbs of a response written as markup.
parse_xml(s) ==
    IF at(s, 1, XML_DECLARATION \o RESPONSE_OPEN)
        THEN parse_verbs(s, 1 + Len(XML_DECLARATION) + Len(RESPONSE_OPEN))
    ELSE <<ParseError>>

\* C15: the markup create_twiml_response returns for a text reads back as
\* a Say of exactly that text followed by the Gather, and nothing else:
\* markup in the text neither ends the Say nor adds a verb.
C15_SayTextRoundTrip ==
    rendered # <<>>
    => parse_xml(rendered) =
           <<[verb |-> "Say", text |-> text_to_say], Gather(TURN_TIMEOUT)>>

C15_Witness ==
    /\ rendered # <<>>
    /\ text_to_say = <<"a">> \o SAY_CLOSE \o HANGUP_EMPTY
    /\ parse_xml(rendered) = <<Say(text_to_say), Gather(TURN_TIMEOUT)>>

\* C16: when a turn calls the completion provider, its write of the
\* transcript with the caller's utterance appended has already been issued;
\* a completion failure leaves that write as the turn's only one.
C16_AppendBeforeCompletion ==
    [][\A p \in Workers :
          ( /\ "generate_response" \notin req[p].invoked
            /\ "generate_response" \in req'[p].invoked )
          => /\ Len(req[p].writes) = 1
             /\ req[p].writes[1].data =
                    [transcript |->
                        Append(req[p].call_log.transcript,
                               [speaker |-> "Caller",
                                text |-> req[p].call_data.SpeechResult])]
             /\ req'[p].error = COMPLETION_ERROR => req'[p].writes = req[p].writes]_vars

C16_Witness ==
    \E p \in Workers :
        /\ IsTurn(req[p]) /\ req[p].pc = "done"
        /\ req[p].error = COMPLETION_ERROR
        /\ req[p].call_log.transcript # <<>>
        /\ req[p].writes[1].applied
        /\ \E r \in RowsOf(req[p].call_data.CallSid) :
               /\ Len(call_logs[r].transcript) = Len(req[p].call_log.transcript) + 1
               /\ call_logs[r].transcript[Len(call_logs[r].transcript)]
                      = Caller(req[p].call_data.SpeechResult)

\* The running transcript of a turn as role turns: the utterances of the
\* transcript the turn read, then the caller's utterance of this turn.
RoleTurns(f) ==
    LET running == Append(f.call_log.transcript,
                          [speaker |-> "Caller", text |-> f.call_data.SpeechResult])
    IN  [i \in 1..Len(running) |->
            [role |-> IF running[i].speaker = "Caller" THEN "user" ELSE "assistant",
             content |-> running[i].text]]

\* C17: the completion provider is called with the agent's system prompt
\* first and then the whole running transcript as role turns.
C17_CompletionSeesTranscript ==
    \A p \in Workers :
        "generate_response" \in req[p].invoked
        => req[p].messages =
               <<[role |-> "system", content |-> req[p].agent_config.system_prompt]>>
                   \o RoleTurns(req[p])

\* C18: the status of a call log becomes terminal only in a step of
\* handle_call_status_update; no speech turn makes it terminal.
C18_TerminalOnlyByNotification ==
    [][\A i \in 1..Len(call_logs) :
          (~Terminal(call_logs[i].status) /\ Terminal(call_logs'[i].status))
          => \E p \in Workers :
                 /\ req[p].handler = "call_status"
                 /\ req[p].pc = "update_call_log"
                 /\ req'[p].pc = "done"
                 /\ req[p].call_log.id = call_logs[i].id]_vars

\* C19: a finished terminal notification for a call log that was found
\* (and whose recording fetch did not raise) has issued an update with the
\* reported status and with the reported duration, 0 when the duration is
\* absent or not an integer.
C19_DurationDefaultsToZero ==
    \A p \in Workers :
        ( /\ req[p].handler = "call_status" /\ req[p].pc = "done"
          /\ req[p].call_log # NoRow
          /\ Terminal(req[p].call_data.CallStatus)
          /\ req[p].error # RECORDING_ERROR )
        => /\ Len(req[p].writes) = 1
           /\ req[p].writes[1].data.status = req[p].call_data.CallStatus
           /\ req[p].writes[1].data.duration
                  = ReportedDuration(req[p].call_data.CallDuration)

\* C20: a finished completed notification that went as far as fetching the
\* recording has issued its update with status and duration, whether the
\* fetch gave a recording or failed; the update has a recording URL only
\* when the fetch gave one.
C20_RecordingFailureTolerated ==
    \A p \in Workers :
        ( /\ req[p].handler = "call_status" /\ req[p].pc = "done"
          /\ req[p].call_data.CallStatus = "completed"
          /\ "get_call_recording" \in req[p].invoked )
        => /\ Len(req[p].writes) = 1
           /\ req[p].writes[1].data.status = "completed"
           /\ req[p].writes[1].data.duration
                  = ReportedDuration(req[p].call_data.CallDuration)
           /\ "recording_url" \in DOMAIN req[p].writes[1].data
              => req[p].writes[1].data.recording_url = RECORDING_URL

\* C21: a status notification handled for a call log whose status is
\* already terminal changes neither its duration nor its recording URL and
\* calls neither the recording fetch nor the analysis.
C21_WriteOnceAfterTerminal ==
    [][\A p \in Workers :
          ( /\ req[p].handler = "call_status"
            /\ req[p].pc = "update_call_log"
            /\ req'[p].pc = "done"
            /\ \E r \in RowsOf(req[p].call_data.CallSid) :
                   Terminal(call_logs[r].status) )
          => /\ req'[p].invoked = {}
             /\ \A r \in RowsOf(req[p].call_data.CallSid) :
                    /\ call_logs'[r].duration = call_logs[r].duration
                    /\ call_logs'[r].recording_url = call_logs[r].recording_url]_vars

\* C22: a speech turn that arrives for a call log whose status is terminal
\* is answered without going on to its write of the transcript: the table
\* is not changed, no update is issued and the completion provider is not
\* called.
C22_TurnsOnlyWhileInProgress ==
    [][\A p \in Workers :
          ( /\ AcceptedBy(p)
            /\ req'[p].handler = "transcribe_speech"
            /\ req'[p].call_data.SpeechResult # <<>>
            /\ \E r \in RowsOf(req'[p].call_data.CallSid) :
                   Terminal(call_logs[r].status) )
          => /\ req'[p].pc = "done"
             /\ call_logs' = call_logs
             /\ req'[p].writes = <<>>
             /\ req'[p].invoked = {}]_vars

\* C23: the last step of a hang-up turn writes the transcript the turn
\* read, followed by the caller's utterance and the agent's goodbye as an
\* agent utterance, together with status completed; the call log takes
\* both when the store applies the write.
C23_HangupTurnResult ==
    [][\A p \in Workers :
          (req[p].pc = "goodbye" /\ req'[p].pc = "done")
          => LET f == req'[p]
                 final_transcript ==
                     req[p].call_log.transcript
                         \o <<[speaker |-> "Caller", text |-> f.call_data.SpeechResult],
                              [speaker |-> "AI", text |-> AgentConfig.goodbye]>>
             IN  /\ Len(f.writes) = 2
                 /\ f.writes[2].data =
                        [transcript |-> final_transcript, status |-> "completed"]
                 /\ f.writes[2].applied
                    => \A r \in RowsOf(f.call_data.CallSid) :
                           /\ call_logs'[r].transcript = final_transcript
                           /\ call_logs'[r].status = "completed"]_vars

C23_Witness ==
    \E p \in Workers :
        /\ IsTurn(req[p]) /\ req[p].pc = "done"
        /\ req[p].call_data.SpeechResult = TextBye
        /\ req[p].call_log.transcript # <<>>
        /\ Len(req[p].writes) = 2 /\ req[p].writes[2].applied
        /\ \E r \in RowsOf(req[p].call_data.CallSid) :
               /\ call_logs[r].status = "completed"
               /\ Len(call_logs[r].transcript) = Len(req[p].call_log.transcript) + 2

\* C24: the last step of a turn whose completion returned writes the
\* transcript the turn read, followed by the caller's utterance and the
\* reply as an agent utterance, and no status; the call log takes it with
\* its status unchanged when the store applies the write; the response says
\* the reply and listens again.
C24_ReplyTurnResult ==
    [][\A p \in Workers :
          ( /\ req[p].pc = "generate_response"
            /\ req'[p].pc = "done"
            /\ req'[p].error = None )
          => LET f == req'[p]
                 replied ==
                     req[p].call_log.transcript
                         \o <<[speaker |-> "Caller", text |-> f.call_data.SpeechResult],
                              [speaker |-> "AI", text |-> AI_REPLY]>>
             IN  /\ Len(f.writes) = 2
                 /\ f.writes[2].data = [transcript |-> replied]
                 /\ f.writes[2].applied
                    => \A r \in RowsOf(f.call_data.CallSid) :
                           /\ call_logs'[r].transcript = replied
                           /\ call_logs'[r].status = call_logs[r].status
                 /\ f.response.status_code = 200
                 /\ Len(f.response.body) = 2
                 /\ f.response.body[1] = [verb |-> "Say", text |-> AI_REPLY]
                 /\ f.response.body[2].verb = "Gather"
                 /\ f.response.body[2].input = "speech"
                 /\ f.response.body[2].timeout = TURN_TIMEOUT]_vars

C24_Witness ==
    \E p \in Workers :
        /\ IsTurn(req[p]) /\ req[p].pc = "done"
        /\ "generate_response" \in req[p].invoked
        /\ req[p].error = None
        /\ req[p].call_log.transcript # <<>>
        /\ Len(req[p].writes) = 2 /\ req[p].writes[2].applied
        /\ \E r \in RowsOf(req[p].call_data.CallSid) :
               /\ call_logs[r].status = "in-progress"
               /\ call_logs[r].transcript = req[p].writes[2].data.transcript

\* C25: an inbound call without a To field is answered with success and a
\* spoken instruction, not with an error status, and no call log is created.
C25_MissingToIsSpoken ==
    [][\A p \in Workers :
          ( /\ AcceptedBy(p)
            /\ req'[p].handler = "call_webhook"
            /\ req'[p].call_data.To = None )
          => /\ req'[p].response.status_code = 200
             /\ \E i \in 1..Len(req'[p].response.body) :
                    req'[p].response.body[i].verb = "Say"
             /\ call_logs' = call_logs]_vars

\* C26: a finished turn one of whose transcript writes the store did not
\* apply has the outcome of a turn whose writes were applied: a hang-up
\* turn said the goodbye and hung up without a completion call; any other
\* turn called the completion provider with the utterance and its later
\* write continues the transcript it holds in memory, and it said the
\* reply (the re-prompt when the provider raised) and listens again.
C26_WriteFailureIsSilent ==
    \A p \in Workers :
        ( /\ IsTurn(req[p]) /\ req[p].pc = "done"
          /\ \E k \in 1..Len(req[p].writes) : ~req[p].writes[k].applied )
        => LET f == req[p]
               said == IF f.call_data.SpeechResult = TextBye THEN AgentConfig.goodbye
                       ELSE IF f.error = COMPLETION_ERROR THEN REPROMPT
                       ELSE AI_REPLY
               then == IF f.call_data.SpeechResult = TextBye THEN [verb |-> "Hangup"]
                       ELSE Gather(TURN_TIMEOUT)
           IN  /\ f.response =
                      [status_code |-> 200,
                       body |-> <<[verb |-> "Say", text |-> said], then>>]
               /\ f.call_data.SpeechResult = TextBye
                      <=> "generate_response" \notin f.invoked
               /\ "generate_response" \in f.invoked
                  => f.messages[Len(f.messages)] =
                         [role |-> "user", content |-> f.call_data.SpeechResult]
               /\ Len(f.writes) = 2
                  => SubSeq(f.writes[2].data.transcript, 1,
                            Len(f.writes[1].data.transcript))
                         = f.writes[1].data.transcript

C26_Witness ==
    \E p \in Workers :
        /\ IsTurn(req[p]) /\ req[p].pc = "done"
        /\ Len(req[p].writes) = 2
        /\ ~req[p].writes[1].applied /\ ~req[p].writes[2].applied
        /\ req[p].call_data.SpeechResult = TextA
        /\ req[p].response.body = <<Say(AI_REPLY), Gather(TURN_TIMEOUT)>>

\* C27: a call log whose recording URL or summary is set has status
\* completed.
C27_EnrichedMeansCompleted ==
    \A r \in 1..Len(call_logs) :
        (call_logs[r].recording_url # None \/ call_logs[r].summary # None)
        => call_logs[r].status = "completed"

\* C28: the status of every call log is one of ringing, in-progress,
\* completed, failed, busy, no-answer.
C28_StatusIsLifecycleValue ==
    \A r \in 1..Len(call_logs) :
        call_logs[r].status \in
            {"ringing", "in-progress", "completed", "failed", "busy", "no-answer"}

\* C29: when an inbound call is answered with the greeting, the table holds
\* a call log for its call sid.
C29_GreetingMeansCallLog ==
    [][\A p \in Workers :
          ( /\ AcceptedBy(p)
            /\ req'[p].handler = "call_webhook"
            /\ req'[p].response.status_code = 200
            /\ \E i \in 1..Len(req'[p].response.body) :
                   req'[p].response.body[i] = Say(AgentConfig.greeting) )
          => \E r \in 1..Len(call_logs') :
                 call_logs'[r].call_sid = req'[p].call_data.CallSid]_vars

\* The in-flight request of worker p takes this step.
StepOf(p) == InFlight(req[p]) /\ req'[p] # req[p]

\* C30: no step changes the id, call sid, numbers, agent or organization of
\* a call log; a step of a request leaves the call logs of other call sids
\* as they are; a step of handle_call_status_update leaves the transcript
\* and a step of process_speech leaves duration, recording URL and summary.
C30_HandlersWriteOwnFields ==
    [][\A r \in 1..Len(call_logs) :
          /\ Len(call_logs') >= Len(call_logs)
          /\ call_logs'[r].id = call_logs[r].id
          /\ call_logs'[r].call_sid = call_logs[r].call_sid
          /\ call_logs'[r].from_number = call_logs[r].from_number
          /\ call_logs'[r].to_number = call_logs[r].to_number
          /\ call_logs'[r].agent_id = call_logs[r].agent_id
          /\ call_logs'[r].organization_id = call_logs[r].organization_id
          /\ \A p \in Workers :
                 StepOf(p)
                 => /\ call_logs[r].call_sid # req[p].call_data.CallSid
                       => call_logs'[r] = call_logs[r]
                    /\ req[p].handler = "call_status"
                       => call_logs'[r].transcript = call_logs[r].transcript
                    /\ req[p].handler = "transcribe_speech"
                       => /\ call_logs'[r].duration = call_logs[r].duration
                          /\ call_logs'[r].recording_url = call_logs[r].recording_url
                          /\ call_logs'[r].summary = call_logs[r].summary]_vars

C30_Witness ==
    /\ call_logs[1] = EarlierCallLog
    /\ \E r \in RowsOf("CA1") :
           /\ call_logs[r].transcript # <<>>
           /\ call_logs[r].status = "completed"
           /\ call_logs[r].recording_url = RECORDING_URL
           /\ call_logs[r].duration = 30
    /\ \E p \in Workers :
           /\ req[p].handler = "call_status" /\ req[p].pc = "done"
           /\ req[p].writes # <<>> /\ req[p].writes[1].applied

=============================================================================
